---------------------------- MODULE Spec2Model ----------------------------
(***************************************************************************)
(* A model of the audio pipeline of ai-services-testing:                   *)
(*   fastapi_server/services/audio_handler.py  (AudioHandler)              *)
(*   fastapi_server/services/ai_processor.py   (AIProcessor)               *)
(*   fastapi_server/routers/audio.py           (process_audio endpoint)    *)
(*   fastapi_server/models/requests.py         (AIConfig)                  *)
(*   src/whisper_service.py                    (WhisperService)            *)
(*   src/ollama_service.py                     (OllamaService)             *)
(*                                                                         *)
(* Bytes are sequences over 0..255.  A base64 text is a sequence of        *)
(* symbols: 0..63 is a character of the base64 alphabet (by its value),    *)
(* PadSym is '=', JunkSym an ASCII character outside the alphabet and      *)
(* NonAsciiSym a character outside ASCII.                                  *)
(***************************************************************************)
EXTENDS Integers, Sequences, FiniteSets, TLC

VARIABLES
    now,        \* int(time.time()): the wall clock in whole seconds
    fs,         \* /tmp: second -> the file /tmp/audio_<second>.wav, or Absent
    model,      \* WhisperService.model: "None" or "Loaded"
    loads,      \* how many times whisper.load_model returned a model
    inv,        \* worker -> the invocation it runs (locals and position)
    nin,        \* the normalizer's input under SpecNorm: [audio, format]
    nout        \* the normalizer's outcome under SpecNorm

vars == <<now, fs, model, loads, inv, nin, nout>>

-----------------------------------------------------------------------------
(* Bounds of the model *)

\* the clock runs over the seconds 0..MaxTime
MaxTime == 1
\* the workers (threads / worker processes) of the overlapping specification
MaxWorkers == 2
\* bytes between "RIFF" and "WAVE" in the sampled containers: 0..MaxGap
MaxGap == 13
\* longest text of the model, in tokens, in the calls of transcribe
MaxTextLen == 4

-----------------------------------------------------------------------------
(* Python values *)

\* a call's outcome: a value, or the class of the exception it raised
Ok(v) == [ok |-> TRUE, val |-> v, exc |-> "none"]
Raise(e) == [ok |-> FALSE, val |-> <<>>, exc |-> e]

PadSym == 64
JunkSym == 65
NonAsciiSym == 66

\* b'RIFF', b'WAVE', b'fmt ', b'data'
RIFF == <<82, 73, 70, 70>>
WAVE == <<87, 65, 86, 69>>
FMT_ == <<102, 109, 116, 32>>
DATA == <<100, 97, 116, 97>>

\* bytes.startswith(prefix)
startswith(b, p) ==
    /\ Len(b) >= Len(p)
    /\ SubSeq(b, 1, Len(p)) = p

\* b[:n]
slice_to(b, n) == SubSeq(b, 1, IF Len(b) < n THEN Len(b) ELSE n)

\* needle in b
bytes_in(needle, b) ==
    \E j \in 1..(Len(b) - Len(needle) + 1) :
        SubSeq(b, j, j + Len(needle) - 1) = needle

\* int.to_bytes(length, 'little'): OverflowError for a negative int or one
\* too big for the length
RECURSIVE le_digits(_, _)
le_digits(n, length) ==
    IF length = 0 THEN <<>>
    ELSE <<n % 256>> \o le_digits(n \div 256, length - 1)

\* n fits `length` little-endian bytes.  The integers of this model stay
\* below 2^31, so every non-negative one fits 4 bytes.
fits(n, length) == n >= 0 /\ (length >= 4 \/ n < 65536)

to_bytes(n, length) ==
    IF ~fits(n, length)
    THEN Raise("OverflowError")
    ELSE Ok(le_digits(n, length))

-----------------------------------------------------------------------------
(* base64 *)

\* binascii.a2b_base64 in its default, non-strict mode, as base64.b64decode
\* calls it: characters outside the alphabet are skipped, a complete pad
\* sequence ends the input, and a quad left open is an error.
\* st = [quad_pos, leftchar, pads, out]
RECURSIVE a2b_loop(_, _, _)
a2b_loop(s, i, st) ==
    IF i > Len(s)
    THEN IF st.quad_pos # 0 THEN Raise("binascii.Error") ELSE Ok(st.out)
    ELSE LET ch == s[i] IN
         IF ch = PadSym
         THEN IF st.quad_pos >= 2 /\ st.quad_pos + st.pads + 1 >= 4
              THEN Ok(st.out)
              ELSE a2b_loop(s, i + 1,
                     IF st.quad_pos >= 2
                     THEN [st EXCEPT !.pads = @ + 1]
                     ELSE st)
         ELSE IF ch >= 64
         THEN a2b_loop(s, i + 1, st)
         ELSE a2b_loop(s, i + 1,
                CASE st.quad_pos = 0 ->
                       [st EXCEPT !.quad_pos = 1, !.leftchar = ch, !.pads = 0]
                  [] st.quad_pos = 1 ->
                       [st EXCEPT !.quad_pos = 2, !.pads = 0,
                                  !.out = Append(@, st.leftchar * 4 + ch \div 16),
                                  !.leftchar = ch % 16]
                  [] st.quad_pos = 2 ->
                       [st EXCEPT !.quad_pos = 3, !.pads = 0,
                                  !.out = Append(@, st.leftchar * 16 + ch \div 4),
                                  !.leftchar = ch % 4]
                  [] st.quad_pos = 3 ->
                       [st EXCEPT !.quad_pos = 0, !.pads = 0,
                                  !.out = Append(@, st.leftchar * 64 + ch),
                                  !.leftchar = 0])

\* base64.b64decode(s) for a str s: a str with a non-ASCII character is a
\* ValueError; binascii.Error is a subclass of ValueError
b64decode(s) ==
    IF \E i \in 1..Len(s) : s[i] = NonAsciiSym
    THEN Raise("ValueError")
    ELSE a2b_loop(s, 1, [quad_pos |-> 0, leftchar |-> 0, pads |-> 0, out |-> <<>>])

\* base64.b64encode(b), which the callers use to build the request
RECURSIVE b64encode(_)
b64encode(b) ==
    IF Len(b) = 0 THEN <<>>
    ELSE IF Len(b) = 1
    THEN <<b[1] \div 4, (b[1] % 4) * 16, PadSym, PadSym>>
    ELSE IF Len(b) = 2
    THEN <<b[1] \div 4, (b[1] % 4) * 16 + b[2] \div 16, (b[2] % 16) * 4, PadSym>>
    ELSE <<b[1] \div 4, (b[1] % 4) * 16 + b[2] \div 16,
           (b[2] % 16) * 4 + b[3] \div 64, b[3] % 64>>
         \o b64encode(SubSeq(b, 4, Len(b)))

-----------------------------------------------------------------------------
(* AudioHandler *)

DefaultSampleRate == 48000
DefaultChannels == 1
DefaultBitsPerSample == 16

\* the values AudioHandler.validate_audio_format accepts
valid_sample_rates == {8000, 16000, 22050, 44100, 48000}
valid_channels == {1, 2}
valid_bits_per_sample == {8, 16, 24, 32}

\* dict.get(key, default)
dict_get(d, key, default) == IF key \in DOMAIN d THEN d[key] ELSE default

\* the audio_format argument: None, or a dict
NoFormat == [none |-> TRUE]
IsNone(f) == "none" \in DOMAIN f
\* `if audio_format:` -- None and the empty dict are falsy
Truthy(f) == ~IsNone(f) /\ DOMAIN f # {}

\* (mutation) one unsupported field discards the whole descriptor
validate_audio_format_all_or_nothing(audio_format) ==
    LET sample_rate == dict_get(audio_format, "sampleRate", 48000)
        channels == dict_get(audio_format, "channels", 1)
        bits_per_sample == dict_get(audio_format, "bitsPerSample", 16)
        defaults == [sampleRate |-> 48000, channels |-> 1, bitsPerSample |-> 16]
    IN IF ~Truthy(audio_format) THEN Ok(defaults)
       ELSE IF /\ sample_rate \in valid_sample_rates
               /\ channels \in valid_channels
               /\ bits_per_sample \in valid_bits_per_sample
            THEN Ok([sampleRate |-> sample_rate, channels |-> channels,
                     bitsPerSample |-> bits_per_sample])
            ELSE Ok(defaults)

\* AudioHandler.validate_audio_format
validate_audio_format(audio_format) ==
    LET validated == [sampleRate |-> 48000, channels |-> 1, bitsPerSample |-> 16]
        sample_rate == dict_get(audio_format, "sampleRate", 48000)
        channels == dict_get(audio_format, "channels", 1)
        bits_per_sample == dict_get(audio_format, "bitsPerSample", 16)
    IN IF ~Truthy(audio_format) THEN Ok(validated)
       ELSE Ok([sampleRate |-> IF sample_rate \in valid_sample_rates
                               THEN sample_rate ELSE validated.sampleRate,
                channels |-> IF channels \in valid_channels
                             THEN channels ELSE validated.channels,
                bitsPerSample |-> IF bits_per_sample \in valid_bits_per_sample
                                  THEN bits_per_sample ELSE validated.bitsPerSample])

\* the first failure of a sequence of outcomes, or their values joined
RECURSIVE write_all(_)
write_all(parts) ==
    IF Len(parts) = 0 THEN Ok(<<>>)
    ELSE IF ~parts[1].ok THEN parts[1]
    ELSE LET rest == write_all(Tail(parts)) IN
         IF ~rest.ok THEN rest ELSE Ok(parts[1].val \o rest.val)

\* (mutation) the RIFF size counts the whole file
create_wav_header_counting_all(data_length, sample_rate, channels, bits_per_sample) ==
    LET byte_rate == (sample_rate * channels * bits_per_sample) \div 8
        block_align == (channels * bits_per_sample) \div 8
    IN write_all(<<
         Ok(RIFF),
         to_bytes(data_length + 44, 4),
         Ok(WAVE),
         Ok(FMT_),
         to_bytes(16, 4),
         to_bytes(1, 2),
         to_bytes(channels, 2),
         to_bytes(sample_rate, 4),
         to_bytes(byte_rate, 4),
         to_bytes(block_align, 2),
         to_bytes(bits_per_sample, 2),
         Ok(DATA),
         to_bytes(data_length, 4) >>)

\* AudioHandler.create_wav_header
create_wav_header(data_length, sample_rate, channels, bits_per_sample) ==
    LET byte_rate == (sample_rate * channels * bits_per_sample) \div 8
        block_align == (channels * bits_per_sample) \div 8
    IN write_all(<<
         Ok(RIFF),
         to_bytes(data_length + 36, 4),
         Ok(WAVE),
         Ok(FMT_),
         to_bytes(16, 4),
         to_bytes(1, 2),
         to_bytes(channels, 2),
         to_bytes(sample_rate, 4),
         to_bytes(byte_rate, 4),
         to_bytes(block_align, 2),
         to_bytes(bits_per_sample, 2),
         Ok(DATA),
         to_bytes(data_length, 4) >>)

\* (mutation) the second marker looked for at offset 8 only
is_wav_at_offset_8(audio_bytes) ==
    /\ startswith(audio_bytes, RIFF)
    /\ Len(audio_bytes) >= 12
    /\ SubSeq(audio_bytes, 9, 12) = WAVE

\* the test of audio_handler.py:71
is_wav(audio_bytes) ==
    startswith(audio_bytes, RIFF) /\ bytes_in(WAVE, slice_to(audio_bytes, 20))

\* (mutation) the header is always built from the defaults
wrap_audio_ignoring_format(audio_bytes, audio_format) ==
    IF is_wav(audio_bytes)
    THEN Ok(audio_bytes)
    ELSE LET wav_header == create_wav_header(Len(audio_bytes), DefaultSampleRate,
                                             DefaultChannels, DefaultBitsPerSample)
         IN Ok(wav_header.val \o audio_bytes)

\* AudioHandler.process_audio_data, after the decode, on the decoded bytes
wrap_audio(audio_bytes, audio_format) ==
    IF is_wav(audio_bytes)
    THEN Ok(audio_bytes)
    ELSE LET sample_rate == IF Truthy(audio_format)
                            THEN dict_get(audio_format, "sampleRate", DefaultSampleRate)
                            ELSE DefaultSampleRate
             channels == IF Truthy(audio_format)
                         THEN dict_get(audio_format, "channels", DefaultChannels)
                         ELSE DefaultChannels
             bits_per_sample == IF Truthy(audio_format)
                                THEN dict_get(audio_format, "bitsPerSample", DefaultBitsPerSample)
                                ELSE DefaultBitsPerSample
             wav_header == create_wav_header(Len(audio_bytes), sample_rate,
                                             channels, bits_per_sample)
         IN IF ~wav_header.ok THEN wav_header
            ELSE Ok(wav_header.val \o audio_bytes)

\* (mutation) a text that does not decode is taken as no bytes at all
process_audio_data_swallowing(audio_base64, audio_format) ==
    LET decoded == b64decode(audio_base64)
        r == wrap_audio(IF decoded.ok THEN decoded.val ELSE <<>>, audio_format)
    IN IF r.ok THEN r ELSE Raise("ValueError")

\* AudioHandler.process_audio_data: every exception of the body is raised
\* again as a ValueError
process_audio_data(audio_base64, audio_format) ==
    LET decoded == b64decode(audio_base64)
        r == IF ~decoded.ok THEN decoded ELSE wrap_audio(decoded.val, audio_format)
    IN IF r.ok THEN r ELSE Raise("ValueError")


-----------------------------------------------------------------------------
(* The backend as the requests library shows it.  One answer per request:   *)
(* no answer in time, no connection, or a response with a status code and   *)
(* a body.  A call is given the answers its successive requests would get.  *)

\* an outcome together with the number of requests the call has sent
Sent(r, n) == [ok |-> r.ok, val |-> r.val, exc |-> r.exc, requests |-> n]

\* requests.get / requests.post: the n-th request of the call
requests_send(answers, n) ==
    IF answers[n].kind = "response" THEN Ok(answers[n]) ELSE Raise(answers[n].kind)

\* Response.raise_for_status
raise_for_status(response) ==
    IF response.status_code >= 400 /\ response.status_code < 600
    THEN Raise("HTTPError") ELSE Ok(response)

\* Response.json: the body is a JSON text or is not
response_json(response) ==
    IF response.body.json THEN Ok(response.body.value) ELSE Raise("JSONDecodeError")

\* JSON values as Python holds them
JDict(d) == [t |-> "dict", items |-> d]
JList(l) == [t |-> "list", elems |-> l]
JStr(s) == [t |-> "str", s |-> s]
JNum(n) == [t |-> "int", n |-> n]
JNull == [t |-> "None"]
Json(v) == [json |-> TRUE, value |-> v]
NotJson == [json |-> FALSE]

\* d[key] of Python: KeyError on a dict without the key, TypeError on a
\* value that is not subscriptable by a string
subscript(v, key) ==
    IF v.t = "dict"
    THEN IF key \in DOMAIN v.items THEN Ok(v.items[key]) ELSE Raise("KeyError")
    ELSE Raise("TypeError")

\* d.get(key, default) of Python: AttributeError on a value that is no dict
get_or(v, key, default) ==
    IF v.t = "dict"
    THEN Ok(IF key \in DOMAIN v.items THEN v.items[key] ELSE default)
    ELSE Raise("AttributeError")

\* [model["name"] for model in v]: the names in order, or the first error
RECURSIVE names_of_list(_)
names_of_list(elems) ==
    IF Len(elems) = 0 THEN Ok(<<>>)
    ELSE LET name == subscript(elems[1], "name") IN
         IF ~name.ok THEN name
         ELSE LET rest == names_of_list(Tail(elems)) IN
              IF ~rest.ok THEN rest ELSE Ok(<<name.val>> \o rest.val)

\* the comprehension over any value: None and numbers are not iterable, the
\* members of a str and of a dict are strs, which have no ["name"]
names_of(v) ==
    CASE v.t = "list" -> names_of_list(v.elems)
      [] v.t = "str" -> IF v.s = "" THEN Ok(<<>>) ELSE Raise("TypeError")
      [] v.t = "dict" -> IF DOMAIN v.items = {} THEN Ok(<<>>) ELSE Raise("TypeError")
      [] OTHER -> Raise("TypeError")

\* the body of the try block of OllamaService.list_models
list_models_try(answers) ==
    LET response == requests_send(answers, 1) IN
    IF ~response.ok THEN response
    ELSE LET checked == raise_for_status(response.val) IN
    IF ~checked.ok THEN checked
    ELSE LET result == response_json(response.val) IN
    IF ~result.ok THEN result
    ELSE LET models == get_or(result.val, "models", JList(<<>>)) IN
    IF ~models.ok THEN models
    ELSE names_of(models.val)

\* (mutation) only the exceptions of the requests library are caught
list_models_catching_requests_only(answers) ==
    LET r == list_models_try(answers) IN
    IF r.ok \/ r.exc \notin {"Timeout", "ConnectionError", "HTTPError", "JSONDecodeError"}
    THEN Sent(r, 1) ELSE Sent(Ok(<<>>), 1)

\* OllamaService.list_models
list_models(answers) ==
    LET r == list_models_try(answers) IN
    IF r.ok THEN Sent(r, 1) ELSE Sent(Ok(<<>>), 1)

\* contents the chat endpoint may return
WeatherJson == "{\"location\": \"Paris\", \"temperature\": 22}"
TruncatedJson == "{\"location\": \"Paris\", \"temperature\":}"
Contents == {WeatherJson, TruncatedJson, "This is not valid JSON", "", "42"}

\* json.loads on the sampled contents: the value of a JSON text,
\* JSONDecodeError on a str that is no JSON text, TypeError on what is no str
json_loads(v) ==
    IF v.t # "str" THEN Raise("TypeError")
    ELSE CASE v.s = WeatherJson ->
                Ok(JDict([location |-> JStr("Paris"), temperature |-> JNum(22)]))
           [] v.s = "42" -> Ok(JNum(42))
           [] OTHER -> Raise("JSONDecodeError")

\* the outer try block of OllamaService.generate_structured up to the content
chat_content(answers) ==
    LET response == requests_send(answers, 1) IN
    IF ~response.ok THEN response
    ELSE LET checked == raise_for_status(response.val) IN
    IF ~checked.ok THEN checked
    ELSE LET result == response_json(response.val) IN
    IF ~result.ok THEN result
    ELSE LET message == subscript(result.val, "message") IN
    IF ~message.ok THEN message
    ELSE subscript(message.val, "content")

\* (mutation) a content that does not parse is raised like any other failure
generate_structured_strict(answers) ==
    LET content == chat_content(answers) IN
    IF ~content.ok THEN Sent(content, 1)
    ELSE Sent(json_loads(content.val), 1)

\* OllamaService.generate_structured: the inner except catches
\* JSONDecodeError only, the outer one logs and raises again
generate_structured(answers) ==
    LET content == chat_content(answers) IN
    IF ~content.ok THEN Sent(content, 1)
    ELSE LET parsed == json_loads(content.val) IN
         IF ~parsed.ok /\ parsed.exc = "JSONDecodeError"
         THEN Sent(Ok(JDict([text |-> content.val])), 1)
         ELSE Sent(parsed, 1)

\* the try block of OllamaService.simple_generate, on the n-th answer
generate_try(answers, n) ==
    LET response == requests_send(answers, n) IN
    IF ~response.ok THEN response
    ELSE LET checked == raise_for_status(response.val) IN
    IF ~checked.ok THEN checked
    ELSE LET result == response_json(response.val) IN
    IF ~result.ok THEN result
    ELSE get_or(result.val, "response", JStr(""))

\* (mutation) a failed request is sent once more
OllamaService_simple_generate_twice(answers) ==
    IF generate_try(answers, 1).ok THEN Sent(generate_try(answers, 1), 1)
    ELSE Sent(generate_try(answers, 2), 2)

\* OllamaService.simple_generate: one request; the except logs and raises
\* the exception again
OllamaService_simple_generate(answers) == Sent(generate_try(answers, 1), 1)

\* LangchainService.simple_chat(message): the reply of the conversation
\* backend as text, or its failure raised to the caller; chats holds what
\* the successive calls would get
simple_chat(chats, n) ==
    IF chats[n].kind = "reply" THEN Ok(chats[n].text) ELSE Raise(chats[n].kind)

\* an outcome with the messages passed to simple_chat, in order
Chatted(r, messages) ==
    [ok |-> r.ok, val |-> r.val, exc |-> r.exc, requests |-> Len(messages),
     messages |-> messages]

\* (mutation) a failed chat is answered with an empty text
rag_query_failing_open(query, knowledge_base, chats) ==
    LET message == <<"Query: ">> \o query
        response == simple_chat(chats, 1)
    IN Chatted(Ok([text |-> IF response.ok THEN response.val ELSE <<>>,
                   sources |-> <<>>]), <<message>>)

\* AIProcessor.rag_query: the except logs and raises again
rag_query(query, knowledge_base, chats) ==
    LET message == <<"Query: ">> \o query
        response == simple_chat(chats, 1)
    IN IF ~response.ok THEN Chatted(response, <<message>>)
       ELSE Chatted(Ok([text |-> response.val, sources |-> <<>>]), <<message>>)

\* the truth test of `if obj:` -- it raises for an object whose __bool__ does
truth(obj) == IF "raises" \in DOMAIN obj THEN Raise("Exception") ELSE Ok(Truthy(obj))

\* try: if <test>: status[...] = True / except: pass
guarded(test) == test.ok /\ test.val

\* (mutation) one try block around the three tests
get_service_status_one_try(self) ==
    LET w == truth(self.whisper_service)
        o == truth(self.ollama_service)
        l == truth(self.langchain_service)
    IN Sent(Ok([whisper |-> guarded(w) /\ "device" \in DOMAIN self.whisper_service,
                ollama |-> w.ok /\ guarded(o),
                langchain |-> w.ok /\ o.ok /\ guarded(l)]), 0)

\* AIProcessor.get_service_status: the three attributes are tested for
\* truth, each in its own try, and nothing is sent to any backend
get_service_status(self) ==
    Sent(Ok([whisper |-> guarded(truth(self.whisper_service))
                         /\ "device" \in DOMAIN self.whisper_service,
             ollama |-> guarded(truth(self.ollama_service)),
             langchain |-> guarded(truth(self.langchain_service))]), 0)

\* (mutation) every status that is not an error counts as healthy
health_check_any_success(answers) ==
    LET response == requests_send(answers, 1) IN
    IF ~response.ok THEN Sent(Ok(FALSE), 1)
    ELSE Sent(Ok(raise_for_status(response.val).ok), 1)

\* OllamaService.health_check
health_check(answers) ==
    LET response == requests_send(answers, 1) IN
    IF ~response.ok THEN Sent(Ok(FALSE), 1)
    ELSE Sent(Ok(response.val.status_code = 200), 1)

-----------------------------------------------------------------------------
(* Texts.  A text is a sequence of tokens; a token is a run of characters   *)
(* kept together, and the tokens of Whitespace are whitespace characters.  *)

Whitespace == {" ", "\n", "\t"}

\* str.strip()
RECURSIVE lstrip(_)
lstrip(t) ==
    IF Len(t) > 0 /\ t[1] \in Whitespace THEN lstrip(Tail(t)) ELSE t

RECURSIVE rstrip(_)
rstrip(t) ==
    IF Len(t) > 0 /\ t[Len(t)] \in Whitespace
    THEN rstrip(SubSeq(t, 1, Len(t) - 1))
    ELSE t

strip(t) == rstrip(lstrip(t))

\* str.split(): the maximal runs of tokens that are not whitespace, in order
RECURSIVE split_from(_, _)
split_from(t, word) ==
    IF Len(t) = 0
    THEN IF Len(word) = 0 THEN <<>> ELSE <<word>>
    ELSE IF t[1] \in Whitespace
         THEN (IF Len(word) = 0 THEN <<>> ELSE <<word>>) \o split_from(Tail(t), <<>>)
         ELSE split_from(Tail(t), Append(word, t[1]))

split(t) == split_from(t, <<>>)

\* (mutation) the words are counted as the separators plus one
transcribe_result_counting_separators(result) ==
    LET word_count == IF Len(result.text) > 0
                      THEN Cardinality({k \in 1..Len(result.text) :
                                          result.text[k] \in Whitespace}) + 1
                      ELSE 0
    IN Ok([text |-> strip(result.text),
           language |-> result.language,
           word_count |-> word_count])

\* WhisperService.transcribe, lines 36-48: the dict built from the result of
\* the model (the fields that are measured times are left out)
transcribe_result(result) ==
    LET word_count == IF Len(result.text) > 0 THEN Len(split(result.text)) ELSE 0
    IN Ok([text |-> strip(result.text),
           language |-> result.language,
           word_count |-> word_count])

\* the reply of the early return, ai_processor.py:83
DidntCatchThat == <<"I didn't catch that. Could you please repeat?">>

-----------------------------------------------------------------------------
(* AIConfig (models/requests.py).  A temperature is held in tenths.         *)

TemperatureMin == 0
TemperatureMax == 20

\* (mutation) the temperature has no upper limit
AIConfig_valid_without_le(config) ==
    /\ "system_prompt" \in DOMAIN config
    /\ config.temperature >= TemperatureMin
    /\ config.max_tokens > 0

\* the constraints pydantic checks when the request layer builds an AIConfig
AIConfig_valid(config) ==
    /\ "system_prompt" \in DOMAIN config
    /\ config.temperature >= TemperatureMin
    /\ config.temperature <= TemperatureMax
    /\ config.max_tokens > 0

-----------------------------------------------------------------------------
(* The state of one invocation *)

Workers == 1..MaxWorkers
Seconds == 0..MaxTime

Absent == [absent |-> TRUE]
NoResult == [none |-> TRUE]
\* temp_audio_path is not yet among the locals
NoPath == -1

DefaultConfig ==
    [system_prompt |-> <<"You are a helpful AI assistant.">>,
     model |-> "phi4", temperature |-> 7, max_tokens |-> 2048]

IdleInv ==
    [pc |-> "idle", op |-> "none", via |-> "none",
     audio |-> <<>>, format |-> NoFormat, config |-> DefaultConfig,
     audio_bytes |-> <<>>, path |-> NoPath,
     transcription |-> <<>>, user_text |-> <<>>, response |-> <<>>,
     exc |-> "none", raised |-> "none", outcome |-> "none", result |-> NoResult,
     nTranscribe |-> 0, nGenerate |-> 0,
     created |-> FALSE, loaded_here |-> FALSE, read |-> Absent,
     text |-> <<>>, request |-> NoResult, failed_at |-> "none",
     reported |-> "none", remove_failed |-> FALSE]

\* The fields of an invocation beyond the locals of the code:
\*   exc          the exception a stage raised, "none" while none has
\*   raised       the exception that reached the caller
\*   outcome      "returned", "raised", or "rejected" by the request layer
\*   nTranscribe  calls of WhisperService.transcribe in this invocation
\*   nGenerate    requests sent to the generation backend in this invocation
\*   created      this invocation's open() created or truncated the file
\*   loaded_here  this invocation's transcribe call loaded the model
\*   read         the file the speech model read: its writer and bytes
\*   text         the text argument of generate_text
\*   request      the payload sent to the generation backend
\*   failed_at    the step that raised: "decode", "write", "load",
\*                "transcribe" or "generate"
\*   reported     what the endpoint answered: "ok", or the error name
\*   remove_failed  os.remove raised in this invocation

\* os.remove(path) inside try/except: pass -- the file goes if it is there
os_remove(files, path) ==
    IF files[path] # Absent THEN [files EXCEPT ![path] = Absent] ELSE files

-----------------------------------------------------------------------------
(* Inputs *)

\* a WAV container (12 bytes of it), raw PCM, and a text that does not decode
WavBytes == RIFF \o <<4, 0, 0, 0>> \o WAVE
PcmBytes == <<1, 2, 3, 4>>
BadBase64 == <<16, 17, 18>>

Audios == {b64encode(WavBytes), b64encode(PcmBytes), BadBase64}
Formats == {NoFormat, [sampleRate |-> 16000, channels |-> 1, bitsPerSample |-> 16]}
\* a config whose system_prompt is not the default of config.get
PirateConfig == [DefaultConfig EXCEPT !.system_prompt = <<"You are a pirate.">>]
Configs ==
    {[DefaultConfig EXCEPT !.temperature = t, !.max_tokens = m] :
        t \in {7, 21, -1}, m \in {2048, 0}}
    \cup {PirateConfig, [PirateConfig EXCEPT !.model = "llama2"]}
\* a dict without system_prompt, which only a direct caller can pass
BareConfig == [model |-> "phi4", temperature |-> 7, max_tokens |-> 2048]

\* what a caller may pass: the full pipeline, or the transcription alone
Inputs ==
    [op : {"process_audio_pipeline"}, audio : Audios, format : Formats,
     config : Configs \cup {BareConfig}, text : {<<>>}]
    \cup
    [op : {"transcribe_audio"}, audio : Audios, format : {NoFormat},
     config : {DefaultConfig}, text : {<<>>}]
    \cup
    [op : {"generate_text"}, audio : {<<>>}, format : {NoFormat},
     config : {DefaultConfig, PirateConfig, BareConfig},
     text : {<<"hello">>, <<" ", "hello", " ">>, <<>>}]

\* the inputs of the overlapping specification
ConcInputs ==
    [op : {"process_audio_pipeline", "transcribe_audio"},
     audio : {b64encode(PcmBytes)},
     format : {NoFormat}, config : {DefaultConfig}, text : {<<>>}]

\* what the speech model may hear, before any trimming
RawTexts == {<<>>, <<" ">>, <<" ", "hello", " ", "world", "\n">>}
\* the replies of the generation backend (result.get("response", ""))
Replies == {<<>>, <<"Hi", " ", "there">>}
\* requests.post(...) timing out or failing, raise_for_status(), and
\* response.json() on a body that is no JSON text
GenerationErrors == {"Timeout", "ConnectionError", "HTTPError", "JSONDecodeError"}
\* what loading the model or the model itself may raise
TranscriptionErrors == {"RuntimeError", "ValueError"}

\* isinstance(e, ValueError): binascii.Error and json.JSONDecodeError (and
\* with it requests.exceptions.JSONDecodeError) are subclasses of ValueError
IsValueError(e) == e \in {"ValueError", "binascii.Error", "JSONDecodeError"}

\* routers/audio.py process_audio, lines 43-62: the answer of the endpoint
\* to what process_audio_pipeline returned or raised
process_audio_response(via, outcome, e) ==
    IF via # "endpoint" THEN "none"
    ELSE IF outcome = "returned" THEN "ok"
    ELSE IF IsValueError(e) THEN "ValidationError"
    ELSE "ProcessingError"

\* the model of the OllamaService built in AIProcessor._initialize_services
OllamaModel == "phi4"

\* (mutation) the prompt is built without the system prompt
full_prompt_without_system(config, user_text) ==
    <<"User: ">> \o user_text \o <<"\nAssistant:">>

\* ai_processor.py:94-95 and 173-174: the prompt
full_prompt(config, user_text) ==
    dict_get(config, "system_prompt", <<"You are a helpful AI assistant.">>)
        \o <<"\n\nUser: ">> \o user_text \o <<"\nAssistant:">>

\* ollama_service.py:89-93: the payload of simple_generate
generate_payload(prompt) == [model |-> OllamaModel, prompt |-> prompt, stream |-> FALSE]

\* (mutation) the request names the model of the config
generate_request_with_config_model(config, user_text) ==
    [generate_payload(full_prompt(config, user_text))
        EXCEPT !.model = dict_get(config, "model", OllamaModel)]

\* ai_processor.py:94-97 and 173-176: what process_audio_pipeline and
\* generate_text send to the generation backend
generate_request(config, user_text) ==
    generate_payload(full_prompt(config, user_text))


-----------------------------------------------------------------------------
(* Initial state *)

NoNormInput == [audio |-> <<>>, format |-> NoFormat]
Pending == Raise("pending")

InitPipeline ==
    /\ now = 0
    /\ fs = [p \in Seconds |-> Absent]
    /\ model = "None"
    /\ loads = 0
    /\ inv = [w \in Workers |-> IdleInv]

Init ==
    /\ InitPipeline
    /\ nin = NoNormInput
    /\ nout = Pending

-----------------------------------------------------------------------------
(* The clock *)

Tick ==
    /\ now < MaxTime
    /\ now' = now + 1
    /\ UNCHANGED <<fs, model, loads, inv, nin, nout>>

-----------------------------------------------------------------------------
(* Entry points *)

\* a direct call of ai_processor.process_audio_pipeline(audio, config[, format])
\* or ai_processor.transcribe_audio(audio), as the test scripts make it
Call(i, inputs) ==
    /\ inv[i].pc = "idle"
    /\ \E in \in inputs :
         inv' = [inv EXCEPT ![i] =
                   [IdleInv EXCEPT !.pc = "try", !.op = in.op, !.via = "direct",
                                   !.audio = in.audio, !.format = in.format,
                                   !.config = in.config, !.text = in.text]]
    /\ UNCHANGED <<now, fs, model, loads, nin, nout>>

\* a POST /ai/process-audio request arrives
Request(i, inputs) ==
    /\ inv[i].pc = "idle"
    /\ \E in \in inputs :
         /\ in.op = "process_audio_pipeline"
         /\ inv' = [inv EXCEPT ![i] =
                      [IdleInv EXCEPT !.pc = "request", !.op = in.op, !.via = "endpoint",
                                      !.audio = in.audio, !.format = in.format,
                                      !.config = in.config]]
    /\ UNCHANGED <<now, fs, model, loads, nin, nout>>

\* routers/audio.py process_audio: the request layer builds ProcessAudioRequest
\* (and with it AIConfig) before the handler body runs; a request that fails
\* the constraints is answered 422 and the handler body never runs
process_audio(i) ==
    /\ inv[i].pc = "request"
    /\ inv' = [inv EXCEPT ![i] =
                 IF AIConfig_valid(inv[i].config)
                 THEN [@ EXCEPT !.pc = "try"]
                 ELSE [@ EXCEPT !.pc = "done", !.outcome = "rejected",
                                !.exc = "RequestValidationError",
                                !.reported = "RequestValidationError"]]
    /\ UNCHANGED <<now, fs, model, loads, nin, nout>>

-----------------------------------------------------------------------------
(* AIProcessor.process_audio_pipeline and AIProcessor.transcribe_audio *)

\* ai_processor.py:66-67 and 137-138: the decoded (and, in the pipeline,
\* wrapped) bytes, then the name of the temporary file from the clock
decode_audio(i) ==
    /\ inv[i].pc = "try"
    /\ inv[i].op # "generate_text"
    /\ LET r == inv[i]
           a == IF r.op = "process_audio_pipeline"
                THEN process_audio_data(r.audio, r.format)
                ELSE b64decode(r.audio)
       IN inv' = [inv EXCEPT ![i] =
                    IF a.ok
                    THEN [@ EXCEPT !.audio_bytes = a.val, !.path = now, !.pc = "write"]
                    ELSE [@ EXCEPT !.exc = a.exc, !.failed_at = "decode",
                                   !.pc = "except"]]
    /\ UNCHANGED <<now, fs, model, loads, nin, nout>>

\* ai_processor.py:172-174: generate_text goes straight to the prompt
generate_text_prompt(i) ==
    /\ inv[i].pc = "try"
    /\ inv[i].op = "generate_text"
    /\ inv' = [inv EXCEPT ![i] = [@ EXCEPT !.user_text = inv[i].text, !.pc = "generate"]]
    /\ UNCHANGED <<now, fs, model, loads, nin, nout>>

\* ai_processor.py:69-70 and 140-141: with open(path, 'wb') as f: f.write(bytes)
write_file(i) ==
    /\ inv[i].pc = "write"
    /\ \/ \* open() fails: no file is created
          /\ inv' = [inv EXCEPT ![i] = [@ EXCEPT !.exc = "OSError", !.failed_at = "write",
                                                !.pc = "except"]]
          /\ UNCHANGED fs
       \/ \* open() creates or truncates the file and write() fails
          /\ fs' = [fs EXCEPT ![inv[i].path] = [writer |-> i, data |-> <<>>]]
          /\ inv' = [inv EXCEPT ![i] =
                       [@ EXCEPT !.created = TRUE, !.exc = "OSError",
                                 !.failed_at = "write", !.pc = "except"]]
       \/ /\ fs' = [fs EXCEPT ![inv[i].path] =
                      [writer |-> i, data |-> inv[i].audio_bytes]]
          /\ inv' = [inv EXCEPT ![i] = [@ EXCEPT !.created = TRUE, !.pc = "transcribe"]]
    /\ UNCHANGED <<now, model, loads, nin, nout>>

\* (mutation) _load_model loads without looking at self.model
WhisperService_load_model_unconditional(i) ==
    /\ inv[i].pc = "transcribe"
    /\ inv' = [inv EXCEPT ![i] = [@ EXCEPT !.nTranscribe = @ + 1, !.pc = "loading"]]
    /\ UNCHANGED <<now, fs, model, loads, nin, nout>>

\* WhisperService.transcribe is entered and calls _load_model, which reads
\* self.model (whisper_service.py:29-31, 13-15)
WhisperService_load_model(i) ==
    /\ inv[i].pc = "transcribe"
    /\ inv' = [inv EXCEPT ![i] =
                 [@ EXCEPT !.nTranscribe = @ + 1,
                           !.pc = IF model = "None" THEN "loading" ELSE "transcribing"]]
    /\ UNCHANGED <<now, fs, model, loads, nin, nout>>

\* (mutation) a failed load is swallowed and the transcription goes on
whisper_load_model_going_on(i) ==
    /\ inv[i].pc = "loading"
    /\ \/ /\ model' = "Loaded"
          /\ loads' = loads + 1
          /\ inv' = [inv EXCEPT ![i] =
                       [@ EXCEPT !.loaded_here = TRUE, !.pc = "transcribing"]]
       \/ /\ inv' = [inv EXCEPT ![i] =
                       [@ EXCEPT !.failed_at = "load", !.pc = "transcribing"]]
          /\ UNCHANGED <<model, loads>>
    /\ UNCHANGED <<now, fs, nin, nout>>

\* whisper_service.py:17: whisper.load_model returns and self.model is set,
\* or it raises and transcribe re-raises (whisper_service.py:50-52)
whisper_load_model(i) ==
    /\ inv[i].pc = "loading"
    /\ \/ /\ model' = "Loaded"
          /\ loads' = loads + 1
          /\ inv' = [inv EXCEPT ![i] =
                       [@ EXCEPT !.loaded_here = TRUE, !.pc = "transcribing"]]
       \/ /\ inv' = [inv EXCEPT ![i] =
                       [@ EXCEPT !.exc = "RuntimeError", !.failed_at = "load",
                                 !.pc = "except"]]
          /\ UNCHANGED <<model, loads>>
    /\ UNCHANGED <<now, fs, nin, nout>>

\* (mutation) a failure of the model is taken as an empty transcription
model_transcribe_hearing_nothing(i) ==
    /\ inv[i].pc = "transcribing"
    /\ \/ \E raw \in RawTexts :
            inv' = [inv EXCEPT ![i] =
                      [@ EXCEPT !.read = fs[inv[i].path],
                                !.transcription = strip(raw),
                                !.pc = "transcribed"]]
       \/ inv' = [inv EXCEPT ![i] =
                    [@ EXCEPT !.read = fs[inv[i].path],
                              !.failed_at = "transcribe",
                              !.transcription = <<>>,
                              !.pc = "transcribed"]]
    /\ UNCHANGED <<now, fs, model, loads, nin, nout>>

\* whisper_service.py:34-48: self.model.transcribe(audio_path) reads the file
\* at the path; the text of the result is trimmed
model_transcribe(i) ==
    /\ inv[i].pc = "transcribing"
    /\ IF fs[inv[i].path] = Absent
       THEN inv' = [inv EXCEPT ![i] =
                      [@ EXCEPT !.exc = "RuntimeError", !.failed_at = "transcribe",
                                !.pc = "except"]]
       ELSE \/ \E raw \in RawTexts :
                 inv' = [inv EXCEPT ![i] =
                           [@ EXCEPT !.read = fs[inv[i].path],
                                     !.transcription = strip(raw),
                                     !.pc = "transcribed"]]
            \/ \E e \in TranscriptionErrors :
                 inv' = [inv EXCEPT ![i] =
                           [@ EXCEPT !.read = fs[inv[i].path],
                                     !.exc = e, !.failed_at = "transcribe",
                                     !.pc = "except"]]
    /\ UNCHANGED <<now, fs, model, loads, nin, nout>>

\* (mutation) no early return: an empty text goes on to the generation
after_transcribe_without_return(i) ==
    /\ inv[i].pc = "transcribed"
    /\ LET user_text == strip(inv[i].transcription) IN
       inv' = [inv EXCEPT ![i] =
                 IF @.op = "transcribe_audio"
                 THEN [@ EXCEPT !.pc = "cleanup"]
                 ELSE [@ EXCEPT !.user_text = user_text, !.pc = "generate"]]
    /\ UNCHANGED <<now, fs, model, loads, nin, nout>>

\* ai_processor.py:78-87: the trimmed text, and the early return when it is
\* empty; ai_processor.py:144: transcribe_audio goes on to its clean-up
after_transcribe(i) ==
    /\ inv[i].pc = "transcribed"
    /\ LET user_text == strip(inv[i].transcription) IN
       inv' = [inv EXCEPT ![i] =
                 IF @.op = "transcribe_audio"
                 THEN [@ EXCEPT !.pc = "cleanup"]
                 ELSE IF user_text = <<>>
                 THEN [@ EXCEPT !.user_text = user_text,
                                !.result = [text |-> DidntCatchThat,
                                            userText |-> <<>>,
                                            tools |-> <<>>],
                                !.outcome = "returned", !.pc = "done",
                                !.reported = process_audio_response(
                                                 inv[i].via, "returned", "none")]
                 ELSE [@ EXCEPT !.user_text = user_text, !.pc = "generate"]]
    /\ UNCHANGED <<now, fs, model, loads, nin, nout>>

\* (mutation) a failed request is sent again
simple_generate_retrying(i) ==
    /\ inv[i].pc = "generate"
    /\ \/ \E reply \in Replies :
            inv' = [inv EXCEPT ![i] =
                      IF inv[i].op = "generate_text"
                      THEN [@ EXCEPT !.nGenerate = @ + 1, !.response = reply,
                                     !.result = [text |-> reply, tools |-> <<>>],
                                     !.outcome = "returned", !.pc = "done"]
                      ELSE [@ EXCEPT !.nGenerate = @ + 1, !.response = reply,
                                     !.pc = "cleanup"]]
       \/ inv' = [inv EXCEPT ![i] = [@ EXCEPT !.nGenerate = @ + 1]]
    /\ UNCHANGED <<now, fs, model, loads, nin, nout>>

\* ai_processor.py:94-97 and ollama_service.py:88-103: one requests.post,
\* whose failure simple_generate logs and raises again
simple_generate(i) ==
    /\ inv[i].pc = "generate"
    /\ LET r == inv[i]
           payload == generate_request(r.config, r.user_text)
       IN \/ \E reply \in Replies :
               inv' = [inv EXCEPT ![i] =
                         IF r.op = "generate_text"
                         THEN [@ EXCEPT !.nGenerate = @ + 1, !.request = payload,
                                        !.response = reply,
                                        !.result = [text |-> reply, tools |-> <<>>],
                                        !.outcome = "returned", !.pc = "done"]
                         ELSE [@ EXCEPT !.nGenerate = @ + 1, !.request = payload,
                                        !.response = reply, !.pc = "cleanup"]]
          \/ \E e \in GenerationErrors :
               inv' = [inv EXCEPT ![i] =
                         [@ EXCEPT !.nGenerate = @ + 1, !.request = payload,
                                   !.exc = e, !.failed_at = "generate",
                                   !.pc = "except"]]
    /\ UNCHANGED <<now, fs, model, loads, nin, nout>>

\* (mutation) the result is returned and the file is left behind
cleanup_return_keeping_file(i) ==
    /\ inv[i].pc = "cleanup"
    /\ LET r == inv[i] IN
       inv' = [inv EXCEPT ![i] =
                 [@ EXCEPT !.result =
                             IF r.op = "process_audio_pipeline"
                             THEN [text |-> r.response, userText |-> r.user_text,
                                   tools |-> <<>>]
                             ELSE [text |-> r.transcription],
                           !.outcome = "returned", !.pc = "done"]]
    /\ UNCHANGED <<now, fs, model, loads, nin, nout>>

\* ai_processor.py:102-119 and 146-157: remove the file, return the result
cleanup_return(i) ==
    /\ inv[i].pc = "cleanup"
    /\ fs' = os_remove(fs, inv[i].path)
    /\ LET r == inv[i] IN
       inv' = [inv EXCEPT ![i] =
                 [@ EXCEPT !.result =
                             IF r.op = "process_audio_pipeline"
                             THEN [text |-> r.response, userText |-> r.user_text,
                                   tools |-> <<>>]
                             ELSE [text |-> r.transcription],
                           !.outcome = "returned", !.pc = "done",
                           !.reported = process_audio_response(r.via, "returned", "none")]]
    /\ UNCHANGED <<now, model, loads, nin, nout>>

\* (mutation) the handler raises again without removing the file
except_without_remove(i) ==
    /\ inv[i].pc = "except"
    /\ inv' = [inv EXCEPT ![i] =
                 [@ EXCEPT !.raised = inv[i].exc, !.outcome = "raised", !.pc = "done"]]
    /\ UNCHANGED <<now, fs, model, loads, nin, nout>>

\* ai_processor.py:121-129 and 159-166: remove the file if its name was
\* bound, then raise the exception again
except_cleanup(i) ==
    /\ inv[i].pc = "except"
    /\ fs' = IF inv[i].path # NoPath THEN os_remove(fs, inv[i].path) ELSE fs
    /\ inv' = [inv EXCEPT ![i] =
                 [@ EXCEPT !.raised = inv[i].exc, !.outcome = "raised", !.pc = "done",
                           !.reported = process_audio_response(
                                            inv[i].via, "raised", inv[i].exc)]]
    /\ UNCHANGED <<now, model, loads, nin, nout>>

\* ai_processor.py:102-119 and 146-157 when os.remove raises although the
\* file is there (the except: pass of lines 104-105): the file stays and
\* the result is returned
cleanup_return_remove_fails(i) ==
    /\ inv[i].pc = "cleanup"
    /\ fs[inv[i].path] # Absent
    /\ LET r == inv[i] IN
       inv' = [inv EXCEPT ![i] =
                 [@ EXCEPT !.result =
                             IF r.op = "process_audio_pipeline"
                             THEN [text |-> r.response, userText |-> r.user_text,
                                   tools |-> <<>>]
                             ELSE [text |-> r.transcription],
                           !.outcome = "returned", !.pc = "done",
                           !.remove_failed = TRUE,
                           !.reported = process_audio_response(r.via, "returned", "none")]]
    /\ UNCHANGED <<now, fs, model, loads, nin, nout>>

\* (mutation) the error of os.remove leaves the handler in place of the
\* exception it was handling
except_cleanup_remove_raises(i) ==
    /\ inv[i].pc = "except"
    /\ inv[i].path # NoPath
    /\ fs[inv[i].path] # Absent
    /\ inv' = [inv EXCEPT ![i] =
                 [@ EXCEPT !.raised = "PermissionError", !.outcome = "raised",
                           !.pc = "done", !.remove_failed = TRUE,
                           !.reported = process_audio_response(
                                            inv[i].via, "raised", "PermissionError")]]
    /\ UNCHANGED <<now, fs, model, loads, nin, nout>>

\* ai_processor.py:121-129 and 159-166 when os.remove raises although the
\* file is there: except: pass swallows its error, and the bare raise
\* raises the exception being handled
except_cleanup_remove_fails(i) ==
    /\ inv[i].pc = "except"
    /\ inv[i].path # NoPath
    /\ fs[inv[i].path] # Absent
    /\ inv' = [inv EXCEPT ![i] =
                 [@ EXCEPT !.raised = inv[i].exc, !.outcome = "raised", !.pc = "done",
                           !.remove_failed = TRUE,
                           !.reported = process_audio_response(
                                            inv[i].via, "raised", inv[i].exc)]]
    /\ UNCHANGED <<now, fs, model, loads, nin, nout>>

\* the caller has the outcome and the worker is free again
Finish(i) ==
    /\ inv[i].pc = "done"
    /\ inv' = [inv EXCEPT ![i] = IdleInv]
    /\ UNCHANGED <<now, fs, model, loads, nin, nout>>

-----------------------------------------------------------------------------
(* Specifications *)

\* one event loop: the coroutines hold no await, so an invocation runs to its
\* end before the next one starts
Next ==
    \/ Tick
    \/ Call(1, Inputs)
    \/ Request(1, Inputs)
    \/ process_audio(1)
    \/ decode_audio(1)
    \/ generate_text_prompt(1)
    \/ write_file(1)
    \/ WhisperService_load_model(1)
    \/ whisper_load_model(1)
    \/ model_transcribe(1)
    \/ after_transcribe(1)
    \/ simple_generate(1)
    \/ cleanup_return(1)
    \/ except_cleanup(1)
    \/ Finish(1)

Spec == Init /\ [][Next]_vars

\* the same event loop on a file system where os.remove may fail
NextFaults ==
    \/ Next
    \/ cleanup_return_remove_fails(1)
    \/ except_cleanup_remove_fails(1)

SpecFaults == Init /\ [][NextFaults]_vars

\* several threads or worker processes share /tmp and the clock (and, as
\* threads, the WhisperService): their invocations overlap
NextOverlap ==
    \/ Tick
    \/ \E i \in Workers :
         \/ Call(i, ConcInputs)
         \/ decode_audio(i)
         \/ write_file(i)
         \/ WhisperService_load_model(i)
         \/ whisper_load_model(i)
         \/ model_transcribe(i)
         \/ after_transcribe(i)
         \/ simple_generate(i)
         \/ cleanup_return(i)
         \/ except_cleanup(i)
         \/ Finish(i)

SpecOverlap == Init /\ [][NextOverlap]_vars


\* The server of main.py: one process, one event loop.  Requests arrive at
\* any time; a handler is a coroutine that awaits only the coroutine of
\* ai_processor, which calls the services without await, so once a handler
\* has started nothing else runs on the loop until it has ended.

\* no handler other than that of request i is between its start and its end
LoopFree(i) ==
    \A j \in Workers \ {i} : inv[j].pc \in {"idle", "request", "done"}

\* the requests of the event-loop specification
LoopInputs ==
    [op : {"process_audio_pipeline"}, audio : {b64encode(PcmBytes)},
     format : {NoFormat},
     config : {DefaultConfig, PirateConfig,
               [DefaultConfig EXCEPT !.model = "llama2", !.temperature = 3,
                                     !.max_tokens = 100]},
     text : {<<>>}]
LoopTextInputs ==
    [op : {"generate_text"}, audio : {<<>>}, format : {NoFormat},
     config : {DefaultConfig,
               [DefaultConfig EXCEPT !.model = "llama2", !.temperature = 3,
                                     !.max_tokens = 100]},
     text : {<<"hello", " ", "world">>}]

\* two requests are followed: one whose handler runs, and one that arrives
\* before, while or after it does
Requesters == {1, 2}

\* the loop starts the handler of a request that has arrived
loop_start(i) ==
    /\ LoopFree(i)
    /\ \/ process_audio(i)
       \/ Call(i, LoopTextInputs)

NextLoop ==
    \/ Tick
    \/ \E i \in Requesters :
         \/ Request(i, LoopInputs)
         \/ loop_start(i)
         \/ decode_audio(i)
         \/ generate_text_prompt(i)
         \/ write_file(i)
         \/ WhisperService_load_model(i)
         \/ whisper_load_model(i)
         \/ model_transcribe(i)
         \/ after_transcribe(i)
         \/ simple_generate(i)
         \/ cleanup_return(i)
         \/ except_cleanup(i)
         \/ Finish(i)

SpecLoop == Init /\ [][NextLoop]_vars

-----------------------------------------------------------------------------
(* The normalizer alone: AudioHandler.process_audio_data on sampled inputs  *)

\* k bytes, none of them a letter of the markers
Gap(k) == [j \in 1..k |-> j]

\* containers with the markers 0..MaxGap bytes apart, near misses, raw PCM
SampleBytes ==
    {RIFF \o Gap(k) \o WAVE \o <<1, 2>> : k \in 0..MaxGap}
    \cup {WavBytes, PcmBytes, RIFF, <<>>,
          RIFF \o <<4, 0, 0, 0>> \o <<87, 65, 86, 88>>,
          <<82, 73, 70, 88>> \o <<4, 0, 0, 0>> \o WAVE,
          <<0>> \o WavBytes,
          WAVE \o RIFF}

\* base64 texts: the samples encoded, texts that do not decode, and a text
\* with a character outside the alphabet, which the decoder skips
NormAudios ==
    {b64encode(b) : b \in SampleBytes}
    \cup {BadBase64, <<16>>, <<16, 17, PadSym>>, <<NonAsciiSym, 16, 17, 18, 19>>,
          <<JunkSym>> \o b64encode(WavBytes)}

NormFormats ==
    {NoFormat, [channels |-> 2], [sampleRate |-> 8000, bitsPerSample |-> 8],
     [sampleRate |-> 8, channels |-> 70000, bitsPerSample |-> 8]}
    \cup [sampleRate : {8000, 16000, 22050, 44100, 48000, 12345, -1},
          channels : {1, 2, 3},
          bitsPerSample : {8, 16, 24, 32, 12}]

InitNorm ==
    /\ InitPipeline
    /\ nin \in [audio : NormAudios, format : NormFormats]
    /\ nout = Pending

\* one call of AudioHandler.process_audio_data(audio, format)
normalize ==
    /\ nout = Pending
    /\ nout' = process_audio_data(nin.audio, nin.format)
    /\ UNCHANGED <<now, fs, model, loads, inv, nin>>

NextNorm == normalize

SpecNorm == InitNorm /\ [][NextNorm]_vars


-----------------------------------------------------------------------------
(* Properties *)

Pipeline(i) == inv[i].op = "process_audio_pipeline"
AtExit(i) == inv[i].pc = "done"
\* the transcription of invocation i has returned a result
Heard(i) == inv[i].read # Absent /\ inv[i].exc = "none"

\* C1: whenever process_audio_pipeline has returned or raised, the temporary
\* file it created is gone -- on the success path, on the early return for an
\* empty transcription, and on every exception.
C1_ArtifactGoneAtEveryExit ==
    \A i \in Workers :
        (Pipeline(i) /\ AtExit(i) /\ inv[i].created) => fs[inv[i].path] = Absent

\* C2: when the trimmed transcription is empty, process_audio_pipeline returns
\* the fixed reply with userText "" and tools [], and no request goes to the
\* generation backend in that invocation.
C2_EmptyTranscriptionShortCircuits ==
    \A i \in Workers :
        (Pipeline(i) /\ Heard(i) /\ strip(inv[i].transcription) = <<>>) =>
            /\ inv[i].nGenerate = 0
            /\ inv[i].pc \in {"transcribed", "done"}
            /\ AtExit(i) =>
                 /\ inv[i].outcome = "returned"
                 /\ inv[i].result = [text |-> <<"I didn't catch that. Could you please repeat?">>,
                                     userText |-> <<>>, tools |-> <<>>]

C2_Witness ==
    /\ Pipeline(1) /\ AtExit(1) /\ Heard(1)
    /\ inv[1].transcription = <<>>
    /\ inv[1].nTranscribe = 1
    /\ inv[1].outcome = "returned"

NothingAllocated(i) ==
    /\ ~inv[i].created
    /\ inv[i].path = NoPath
    /\ inv[i].nTranscribe = 0
    /\ inv[i].nGenerate = 0

ConfigOutOfRange(c) ==
    c.temperature < 0 \/ c.temperature > 20 \/ ~(c.max_tokens > 0)

\* C4 as stated: process_audio_pipeline itself rejects every invocation whose
\* config has a temperature outside [0.0, 2.0] or max_tokens not > 0, before
\* it creates a temporary file or calls a backend.
C4_PipelineRejectsBadConfig ==
    \A i \in Workers :
        (Pipeline(i) /\ ConfigOutOfRange(inv[i].config)) =>
            /\ NothingAllocated(i)
            /\ AtExit(i) => inv[i].outcome \in {"raised", "rejected"}

\* C4 as amended: a request to the process-audio endpoint whose config is out
\* of range is rejected by the request layer (AIConfig) before
\* process_audio_pipeline is invoked, so no temporary file is created and no
\* backend is called for it.
C4_EndpointRejectsBadConfig ==
    \A i \in Workers :
        (Pipeline(i) /\ inv[i].via = "endpoint" /\ ConfigOutOfRange(inv[i].config)) =>
            /\ NothingAllocated(i)
            /\ inv[i].pc \in {"request", "done"}
            /\ AtExit(i) => inv[i].outcome = "rejected"

C4_Witness ==
    /\ Pipeline(1) /\ AtExit(1)
    /\ inv[1].via = "endpoint"
    /\ inv[1].config.temperature = 21
    /\ inv[1].config.max_tokens = 2048
    /\ inv[1].outcome = "rejected"

\* C5: when the audio text cannot be base64-decoded, process_audio_pipeline
\* fails with a ValueError, and in that invocation no temporary file is
\* created and neither backend is called.
C5_UndecodableAudioIsValueError ==
    \A i \in Workers :
        (Pipeline(i) /\ ~b64decode(inv[i].audio).ok /\ inv[i].outcome # "rejected") =>
            /\ NothingAllocated(i)
            /\ inv[i].pc \in {"request", "try", "except", "done"}
            /\ inv[i].pc \in {"except", "done"} => inv[i].exc = "ValueError"
            /\ AtExit(i) => (inv[i].outcome = "raised" /\ inv[i].raised = "ValueError")

C5_Witness ==
    /\ Pipeline(1) /\ AtExit(1)
    /\ inv[1].audio = BadBase64
    /\ inv[1].outcome = "raised"
    /\ inv[1].raised = "ValueError"
    /\ inv[1].path = NoPath


\* invocation i holds a temporary file name and has not yet returned or raised
HoldsArtifact(i) ==
    /\ inv[i].path # NoPath
    /\ inv[i].pc \notin {"idle", "done"}

\* C6: two invocations that create a temporary file and overlap in time use
\* different file names, so none overwrites, transcribes or deletes the file
\* of another: each transcribes exactly the bytes it wrote itself.
C6_OverlappingInvocationsUseDistinctPaths ==
    /\ \A i, j \in Workers :
         (i # j /\ HoldsArtifact(i) /\ HoldsArtifact(j)) => inv[i].path # inv[j].path
    /\ \A i \in Workers :
         inv[i].read # Absent =>
             inv[i].read = [writer |-> i, data |-> inv[i].audio_bytes]

\* C7: when transcribe calls on a WhisperService that is not yet loaded run
\* concurrently, whisper.load_model builds the model at most once in total.
C7_ModelLoadedAtMostOnce == loads <= 1

\* C8: a WhisperService starts Unloaded; over sequential transcribe calls the
\* model is loaded exactly once, by the first call that gets to use it, and
\* never again; once Loaded the service never returns to Unloaded.
C8_LoadedOnceAndForGood ==
    /\ model = "None"
    /\ [](/\ loads <= 1
          /\ (model = "Loaded") <=> (loads = 1)
          /\ \A i \in Workers :
               inv[i].pc \in {"transcribing", "transcribed"} => model = "Loaded")
    /\ [][model = "Loaded" => (model' = "Loaded" /\ loads' = loads)]_vars

\* a later call transcribes with the model an earlier call loaded
C8_Witness ==
    /\ inv[1].pc = "transcribing"
    /\ ~inv[1].loaded_here
    /\ model = "Loaded"
    /\ loads = 1

\* C9: within one invocation of process_audio_pipeline the transcription
\* backend is called at most once and the generation backend at most once,
\* whatever the outcome: a failed call is not attempted again.
C9_EachBackendCalledAtMostOnce ==
    \A i \in Workers :
        Pipeline(i) =>
            /\ inv[i].nTranscribe <= 1
            /\ inv[i].nGenerate <= 1
            /\ (inv[i].exc # "none" /\ inv[i].nGenerate = 1) => inv[i].pc \in {"except", "done"}
            /\ (inv[i].exc # "none" /\ inv[i].nTranscribe = 1) => inv[i].pc \in {"except", "done"}

C9_Witness ==
    /\ Pipeline(1) /\ AtExit(1)
    /\ inv[1].nTranscribe = 1
    /\ inv[1].nGenerate = 1
    /\ inv[1].exc = "Timeout"
    /\ inv[1].outcome = "raised"

\* b begins with "RIFF" and holds "WAVE" within its first 20 bytes
HasMarkers(b) ==
    /\ Len(b) >= 4
    /\ b[1] = 82 /\ b[2] = 73 /\ b[3] = 70 /\ b[4] = 70
    /\ \E j \in 1..17 :
         /\ j + 3 <= Len(b)
         /\ b[j] = 87 /\ b[j + 1] = 65 /\ b[j + 2] = 86 /\ b[j + 3] = 69

\* C10: for every decoded input that begins with "RIFF" and holds "WAVE"
\* within its first 20 bytes, process_audio_data returns the decoded bytes
\* unchanged, whatever format descriptor comes with it.
C10_WavInputIsReturnedUnchanged ==
    (nout # Pending /\ b64decode(nin.audio).ok /\ HasMarkers(b64decode(nin.audio).val)) =>
        nout = Ok(b64decode(nin.audio).val)

\* a container whose "WAVE" ends at byte 20, with a format descriptor supplied
C10_Witness ==
    /\ nout # Pending
    /\ nout.ok
    /\ Len(nout.val) >= 20
    /\ SubSeq(nout.val, 17, 20) = WAVE
    /\ HasMarkers(nout.val)
    /\ nout.val = b64decode(nin.audio).val
    /\ ~IsNone(nin.format)
    /\ "sampleRate" \in DOMAIN nin.format
    /\ nin.format.sampleRate = 8000

-----------------------------------------------------------------------------
(* The synthesized header, read back field by field                         *)

\* the unsigned little-endian number held in bytes from..to of b
RECURSIVE le_value(_, _, _)
le_value(b, from, to) ==
    IF from > to THEN 0 ELSE b[from] + 256 * le_value(b, from + 1, to)

\* a descriptor with all three fields, each from its enumeration
EnumeratedFormat(f) ==
    /\ DOMAIN f = {"sampleRate", "channels", "bitsPerSample"}
    /\ f.sampleRate \in valid_sample_rates
    /\ f.channels \in valid_channels
    /\ f.bitsPerSample \in valid_bits_per_sample

\* C11: for every raw PCM input (decoded bytes without the RIFF/WAVE markers)
\* and every format whose three fields come from the enumerations,
\* process_audio_data returns 44 header bytes followed by the raw bytes
\* unchanged, and the header's channels (bytes 23-24), sample rate (bytes
\* 25-28) and bits per sample (bytes 35-36) read back as the format's values.
C11_HeaderRoundTripsFormat ==
    (/\ nout # Pending
     /\ b64decode(nin.audio).ok
     /\ ~HasMarkers(b64decode(nin.audio).val)
     /\ EnumeratedFormat(nin.format)) =>
        LET raw == b64decode(nin.audio).val IN
        /\ nout.ok
        /\ Len(nout.val) = 44 + Len(raw)
        /\ SubSeq(nout.val, 45, Len(nout.val)) = raw
        /\ le_value(nout.val, 23, 24) = nin.format.channels
        /\ le_value(nout.val, 25, 28) = nin.format.sampleRate
        /\ le_value(nout.val, 35, 36) = nin.format.bitsPerSample

\* raw PCM wrapped with a format that differs from the default in every field
C11_Witness ==
    /\ nout # Pending
    /\ nout.ok
    /\ b64decode(nin.audio).val = PcmBytes
    /\ nin.format = [sampleRate |-> 44100, channels |-> 2, bitsPerSample |-> 24]
    /\ Len(nout.val) = 48

-----------------------------------------------------------------------------
(* Single calls of the services' methods on sampled arguments and sampled   *)
(* answers of the backend                                                   *)

\* arguments of AudioHandler.create_wav_header
HeaderCalls ==
    [fn : {"create_wav_header"},
     data_length : {0, 1, 1000, 65500, 100000},
     sample_rate : valid_sample_rates \cup {12345, 0, -1},
     channels : valid_channels \cup {3, 0},
     bits_per_sample : valid_bits_per_sample \cup {12}]
    \cup {[fn |-> "create_wav_header", data_length |-> 4, sample_rate |-> 8,
           channels |-> 70000, bits_per_sample |-> 8],
          [fn |-> "create_wav_header", data_length |-> -1, sample_rate |-> 8000,
           channels |-> 1, bits_per_sample |-> 8]}

\* arguments of AudioHandler.validate_audio_format: None, the empty dict,
\* dicts with fields missing, with values in and out of the enumerations
EmptyDict == <<>>
ValidateCalls == [fn : {"validate_audio_format"}, format : NormFormats \cup {EmptyDict}]

\* what the backend may answer to one request
StatusCodes == {200, 204, 404, 500}
Failures == {[kind |-> "Timeout"], [kind |-> "ConnectionError"]}
Answers(bodies) ==
    Failures \cup [kind : {"response"}, status_code : StatusCodes, body : bodies]

\* bodies of GET /api/version
VersionBodies == {NotJson, Json(JDict([version |-> JStr("0.1.0")]))}

\* bodies of GET /api/tags: the list of models, and bodies without one
Model(name) == JDict([name |-> JStr(name)])
TagsBodies ==
    {NotJson,
     Json(JDict([models |-> JList(<<Model("phi3:latest"), Model("llama2:7b"),
                                    Model("codellama:13b")>>)])),
     Json(JDict([models |-> JList(<<Model("phi4")>>)])),
     Json(JDict([models |-> JList(<<>>)])),
     Json(JDict([error |-> JStr("unavailable")])),
     Json(JDict([models |-> JList(<<Model("phi4"), JDict([size |-> JNum(1)])>>)])),
     Json(JDict([models |-> JList(<<JStr("phi4")>>)])),
     Json(JDict([models |-> JNull])),
     Json(JDict([models |-> JStr("phi4")])),
     Json(JList(<<Model("phi4")>>))}

ListCalls == [fn : {"list_models"}, answers : [1..2 -> Answers(TagsBodies)]]

\* bodies of POST /api/chat: a message with a content, and bodies without
ChatBodies ==
    {Json(JDict([message |-> JDict([role |-> JStr("assistant"),
                                    content |-> JStr(c)])])) : c \in Contents}
    \cup {NotJson,
          Json(JDict([error |-> JStr("model not found")])),
          Json(JDict([message |-> JDict([role |-> JStr("assistant")])])),
          Json(JDict([message |-> JDict([content |-> JNull])])),
          Json(JDict([message |-> JStr("hello")]))}

StructuredCalls == [fn : {"generate_structured"}, answers : [1..2 -> Answers(ChatBodies)]]

\* bodies of POST /api/generate
GenerateBodies ==
    {NotJson,
     Json(JDict([response |-> JStr("Hi there"), done |-> JStr("true")])),
     Json(JDict([response |-> JStr("")])),
     Json(JDict([error |-> JStr("model not found")])),
     Json(JList(<<>>))}

GenerateCalls == [fn : {"simple_generate"}, answers : [1..2 -> Answers(GenerateBodies)]]

\* texts the model may return: up to MaxTextLen tokens, words and whitespace
ModelTexts ==
    UNION {[1..n -> {"hello", "world", " ", "\n"}] : n \in 0..MaxTextLen}

\* WhisperService.transcribe is called; loading the model and the model's
\* own transcribe may each raise
TranscribeCalls ==
    [fn : {"transcribe"}, load_raises : BOOLEAN, model_raises : BOOLEAN,
     text : ModelTexts, language : {"en"}]

\* what the conversation backend may answer to one chat
ChatOutcomes ==
    [kind : {"reply"}, text : {<<>>, <<"Paris", " ", "is", " ", "in", " ", "France">>}]
    \cup [kind : {"Timeout", "ConnectionError", "HTTPError"}]

RagCalls ==
    [fn : {"rag_query"},
     query : {<<>>, <<"capital", " ", "of", " ", "France">>, <<"Query: ">>},
     knowledge_base : {"default", "manuals"},
     chats : [1..2 -> ChatOutcomes]]

HealthCalls == [fn : {"health_check"}, answers : [1..2 -> Answers(VersionBodies)]]

\* the processor after AIProcessor.__init__ has returned: three service
\* objects (instances of classes without __bool__ or __len__ are true)
AIProcessor_init ==
    [whisper_service |-> [model_size |-> "base", device |-> "cpu"],
     ollama_service |-> [host |-> "http://localhost:11434", model |-> "phi4"],
     langchain_service |-> [host |-> "http://localhost:11434", model |-> "phi4"]]

\* get_service_status is called while the backend would answer a probe in
\* one of these ways
\* what a caller may have put in place of a service: None, and an object
\* whose truth test raises
NoService == [none |-> TRUE]
RaisingService == [raises |-> TRUE]
Processors ==
    [whisper_service : {AIProcessor_init.whisper_service, NoService, RaisingService,
                        [model_size |-> "base"]},
     ollama_service : {AIProcessor_init.ollama_service, NoService, RaisingService},
     langchain_service : {AIProcessor_init.langchain_service, NoService, RaisingService}]

StatusCalls ==
    [fn : {"get_service_status"}, self : Processors,
     answers : [1..2 -> Answers(VersionBodies)]]

CallInputs == HeaderCalls \cup ValidateCalls \cup HealthCalls \cup StatusCalls
    \cup ListCalls \cup StructuredCalls \cup GenerateCalls \cup TranscribeCalls
    \cup RagCalls

InitCalls ==
    /\ InitPipeline
    /\ nin \in CallInputs
    /\ nout = Pending

\* one call of AudioHandler.create_wav_header
call_create_wav_header ==
    /\ nin.fn = "create_wav_header"
    /\ nout.exc = "pending"
    /\ nout' = create_wav_header(nin.data_length, nin.sample_rate,
                                 nin.channels, nin.bits_per_sample)
    /\ UNCHANGED <<now, fs, model, loads, inv, nin>>

\* one call of AudioHandler.validate_audio_format
call_validate_audio_format ==
    /\ nin.fn = "validate_audio_format"
    /\ nout.exc = "pending"
    /\ nout' = validate_audio_format(nin.format)
    /\ UNCHANGED <<now, fs, model, loads, inv, nin>>

\* one call of OllamaService.health_check
call_health_check ==
    /\ nin.fn = "health_check"
    /\ nout.exc = "pending"
    /\ nout' = health_check(nin.answers)
    /\ UNCHANGED <<now, fs, model, loads, inv, nin>>

\* one call of AIProcessor.get_service_status
call_get_service_status ==
    /\ nin.fn = "get_service_status"
    /\ nout.exc = "pending"
    /\ nout' = get_service_status(nin.self)
    /\ UNCHANGED <<now, fs, model, loads, inv, nin>>

\* one call of OllamaService.list_models
call_list_models ==
    /\ nin.fn = "list_models"
    /\ nout.exc = "pending"
    /\ nout' = list_models(nin.answers)
    /\ UNCHANGED <<now, fs, model, loads, inv, nin>>

\* one call of OllamaService.generate_structured
call_generate_structured ==
    /\ nin.fn = "generate_structured"
    /\ nout.exc = "pending"
    /\ nout' = generate_structured(nin.answers)
    /\ UNCHANGED <<now, fs, model, loads, inv, nin>>

\* one call of OllamaService.simple_generate
call_simple_generate ==
    /\ nin.fn = "simple_generate"
    /\ nout.exc = "pending"
    /\ nout' = OllamaService_simple_generate(nin.answers)
    /\ UNCHANGED <<now, fs, model, loads, inv, nin>>

\* one call of WhisperService.transcribe: the model is loaded if there is
\* none, the model transcribes, and the result is built; every exception is
\* logged and raised again
call_transcribe ==
    /\ nin.fn = "transcribe"
    /\ nout.exc = "pending"
    /\ IF model = "None" /\ nin.load_raises
       THEN /\ nout' = Raise("RuntimeError")
            /\ UNCHANGED <<model, loads>>
       ELSE /\ model' = "Loaded"
            /\ loads' = IF model = "None" THEN loads + 1 ELSE loads
            /\ nout' = IF nin.model_raises THEN Raise("Exception")
                       ELSE transcribe_result([text |-> nin.text,
                                               language |-> nin.language])
    /\ UNCHANGED <<now, fs, inv, nin>>

\* one call of AIProcessor.rag_query
call_rag_query ==
    /\ nin.fn = "rag_query"
    /\ nout.exc = "pending"
    /\ nout' = rag_query(nin.query, nin.knowledge_base, nin.chats)
    /\ UNCHANGED <<now, fs, model, loads, inv, nin>>

NextCalls ==
    \/ call_get_service_status
    \/ call_rag_query
    \/ call_transcribe
    \/ call_simple_generate
    \/ call_generate_structured
    \/ call_list_models
    \/ call_create_wav_header
    \/ call_validate_audio_format
    \/ call_health_check

SpecCalls == InitCalls /\ [][NextCalls]_vars

\* the call of the named method has returned or raised
Called(fn) == nin.fn = fn /\ nout.exc # "pending"

\* C12: every header create_wav_header returns is 44 bytes long, has format
\* tag 1 (bytes 21-22), total size (bytes 5-8) = data length + 36, data size
\* (bytes 41-44) = data length, byte rate (bytes 29-32) =
\* sampleRate*channels*bitsPerSample/8 and block align (bytes 33-34) =
\* channels*bitsPerSample/8, the quotients being whole-number quotients.
C12_HeaderFields ==
    (Called("create_wav_header") /\ nout.ok) =>
        LET h == nout.val
            rate_bits == nin.sample_rate * nin.channels * nin.bits_per_sample
            frame_bits == nin.channels * nin.bits_per_sample
        IN /\ Len(h) = 44
           /\ le_value(h, 21, 22) = 1
           /\ le_value(h, 5, 8) = nin.data_length + 36
           /\ le_value(h, 41, 44) = nin.data_length
           /\ 8 * le_value(h, 29, 32) <= rate_bits
           /\ rate_bits < 8 * le_value(h, 29, 32) + 8
           /\ 8 * le_value(h, 33, 34) <= frame_bits
           /\ frame_bits < 8 * le_value(h, 33, 34) + 8

\* a header for 1000 bytes of 44.1 kHz 16-bit stereo: byte rate 176400
C12_Witness ==
    /\ Called("create_wav_header")
    /\ nout.ok
    /\ nin.data_length = 1000
    /\ nin.sample_rate = 44100 /\ nin.channels = 2 /\ nin.bits_per_sample = 16
    /\ le_value(nout.val, 29, 32) = 176400
    /\ le_value(nout.val, 33, 34) = 4

\* the value of a field of the descriptor, as the normalizer reads it
Supplied(f, key, default) == IF Truthy(f) THEN dict_get(f, key, default) ELSE default

\* C13: when process_audio_data synthesizes a header for raw PCM and the
\* supplied format has a field outside its enumeration, the call does not
\* fail and the header carries the default of that field (48000, 1, 16).
C13_OutOfEnumerationFieldsBecomeDefaults ==
    (/\ nout # Pending
     /\ b64decode(nin.audio).ok
     /\ ~HasMarkers(b64decode(nin.audio).val)
     /\ ~IsNone(nin.format)) =>
        /\ nout.ok
        /\ Supplied(nin.format, "sampleRate", 48000) \notin valid_sample_rates
              => le_value(nout.val, 25, 28) = 48000
        /\ Supplied(nin.format, "channels", 1) \notin valid_channels
              => le_value(nout.val, 23, 24) = 1
        /\ Supplied(nin.format, "bitsPerSample", 16) \notin valid_bits_per_sample
              => le_value(nout.val, 35, 36) = 16

\* the field key of descriptor f is present with a value of the set allowed
Keeps(f, key, allowed) == Truthy(f) /\ key \in DOMAIN f /\ f[key] \in allowed

\* C14: validate_audio_format never raises; the three fields of its result
\* lie in their enumerations; each field on its own is the supplied value
\* when that value is in the enumeration and the default (48000, 1, 16) when
\* it is missing or outside, whatever the other two fields hold.
C14_ValidateDecidesEachFieldAlone ==
    Called("validate_audio_format") =>
        LET f == nin.format IN
        /\ nout.ok
        /\ DOMAIN nout.val = {"sampleRate", "channels", "bitsPerSample"}
        /\ nout.val.sampleRate \in {8000, 16000, 22050, 44100, 48000}
        /\ nout.val.channels \in {1, 2}
        /\ nout.val.bitsPerSample \in {8, 16, 24, 32}
        /\ nout.val.sampleRate =
              IF Keeps(f, "sampleRate", {8000, 16000, 22050, 44100, 48000})
              THEN f.sampleRate ELSE 48000
        /\ nout.val.channels =
              IF Keeps(f, "channels", {1, 2}) THEN f.channels ELSE 1
        /\ nout.val.bitsPerSample =
              IF Keeps(f, "bitsPerSample", {8, 16, 24, 32})
              THEN f.bitsPerSample ELSE 16

\* an unsupported sample rate next to supported channels and width
C14_Witness ==
    /\ Called("validate_audio_format")
    /\ nin.format = [sampleRate |-> 12345, channels |-> 2, bitsPerSample |-> 24]
    /\ nout = Ok([sampleRate |-> 48000, channels |-> 2, bitsPerSample |-> 24])

\* the backend does not answer the probe: no connection, or no answer in time
Unreachable(answer) == answer.kind \in {"Timeout", "ConnectionError"}

\* C15: get_service_status probes the generation backend at the time of the
\* call: when that backend is unreachable the ollama field of the result is
\* false.
C15_UnreachableBackendIsReportedDown ==
    (/\ Called("get_service_status")
     /\ nin.self = AIProcessor_init
     /\ Unreachable(nin.answers[1])) =>
        /\ nout.requests >= 1
        /\ nout.val.ollama = FALSE

\* C16: health_check never raises and returns a boolean, true exactly when
\* the version probe is answered with status 200; false for every other
\* status, for a timeout and for an unreachable host.
C16_HealthCheckIsStatus200 ==
    Called("health_check") =>
        /\ nout.ok
        /\ nout.val \in BOOLEAN
        /\ nout.val <=> (/\ nin.answers[1].kind = "response"
                         /\ nin.answers[1].status_code = 200)

\* a probe answered 204, and so reported unhealthy
C16_Witness ==
    /\ Called("health_check")
    /\ nin.answers[1].kind = "response"
    /\ nin.answers[1].status_code = 204
    /\ nout.val = FALSE

\* an answer with a status that is not an error status and a body that is a
\* JSON object whose "models" is a list of objects, each with a "name"
ListsModels(answer) ==
    /\ answer.kind = "response"
    /\ answer.status_code < 400
    /\ answer.body.json
    /\ answer.body.value.t = "dict"
    /\ "models" \in DOMAIN answer.body.value.items
    /\ answer.body.value.items.models.t = "list"
    /\ \A k \in 1..Len(answer.body.value.items.models.elems) :
         LET e == answer.body.value.items.models.elems[k] IN
         e.t = "dict" /\ "name" \in DOMAIN e.items

\* C17: list_models never raises; it returns the empty list on a connection
\* error, a timeout, an error status and a malformed body, and otherwise
\* the names of the backend's models in the backend's order.
C17_ListModelsFailsOpen ==
    Called("list_models") =>
        LET a == nin.answers[1] IN
        /\ nout.ok
        /\ ListsModels(a) =>
              LET elems == a.body.value.items.models.elems IN
              nout.val = [k \in 1..Len(elems) |-> elems[k].items.name]
        /\ ~ListsModels(a) => nout.val = <<>>

\* three models returned in the backend's order, which is not alphabetical
C17_Witness ==
    /\ Called("list_models")
    /\ nout.val = <<JStr("phi3:latest"), JStr("llama2:7b"), JStr("codellama:13b")>>

\* no answer, or an answer with an error status
TransportFailure(answer) ==
    \/ Unreachable(answer)
    \/ answer.status_code >= 400

\* the body is a JSON object whose "message" is an object with a str "content"
CarriesContent(answer) ==
    /\ answer.body.json
    /\ answer.body.value.t = "dict"
    /\ "message" \in DOMAIN answer.body.value.items
    /\ answer.body.value.items.message.t = "dict"
    /\ "content" \in DOMAIN answer.body.value.items.message.items
    /\ answer.body.value.items.message.items.content.t = "str"

ContentOf(answer) == answer.body.value.items.message.items.content.s

\* the sampled contents that are JSON texts
IsJsonText(c) == c \in {"{\"location\": \"Paris\", \"temperature\": 22}", "42"}

\* C18 as stated: generate_structured raises only on a transport-level
\* failure (timeout, connection error, error status); on every successful
\* response it returns, the fallback {"text": content} when the content is
\* not valid JSON.
C18_OnlyTransportFailuresRaise ==
    Called("generate_structured") =>
        (~nout.ok <=> TransportFailure(nin.answers[1]))

\* C18, amended: on a successful response whose body carries a str
\* message.content, generate_structured returns the parsed value when the
\* content is valid JSON and exactly {"text": content} otherwise; it raises
\* on a transport-level failure and on a successful response whose body is
\* not JSON or carries no str message.content, and in no other case.
C18_FallbackForUnparsableContent ==
    Called("generate_structured") =>
        LET a == nin.answers[1] IN
        /\ nout.requests = 1
        /\ ~nout.ok <=> (TransportFailure(a) \/ ~CarriesContent(a))
        /\ (nout.ok /\ ~IsJsonText(ContentOf(a))) =>
              nout.val = [t |-> "dict", items |-> [text |-> [t |-> "str", s |-> ContentOf(a)]]]
        /\ (nout.ok /\ ContentOf(a) = "{\"location\": \"Paris\", \"temperature\": 22}") =>
              /\ nout.val.t = "dict"
              /\ DOMAIN nout.val.items = {"location", "temperature"}
              /\ nout.val.items.temperature.n = 22
        /\ (nout.ok /\ ContentOf(a) = "42") => nout.val = [t |-> "int", n |-> 42]

\* a 200 response whose content is cut off JSON, answered with the fallback
C18_Witness ==
    /\ Called("generate_structured")
    /\ nin.answers[1].kind = "response"
    /\ nin.answers[1].status_code = 200
    /\ CarriesContent(nin.answers[1])
    /\ ContentOf(nin.answers[1]) = TruncatedJson
    /\ nout.ok
    /\ nout.val.items.text.s = TruncatedJson

\* C19: simple_generate sends exactly one request per call; on a timeout, a
\* connection failure or an error status the call raises that failure to
\* its caller and returns nothing, whatever a second request would have
\* got; on a successful response with a response text it returns that text.
C19_OneRequestFailuresRaised ==
    Called("simple_generate") =>
        LET a == nin.answers[1] IN
        /\ nout.requests = 1
        /\ TransportFailure(a) =>
              /\ ~nout.ok
              /\ nout.exc = IF Unreachable(a) THEN a.kind ELSE "HTTPError"
        /\ (/\ ~TransportFailure(a)
            /\ a.body.json
            /\ a.body.value.t = "dict"
            /\ "response" \in DOMAIN a.body.value.items) =>
              nout = [ok |-> TRUE, val |-> a.body.value.items.response,
                      exc |-> "none", requests |-> 1]

\* a request that times out although the next one would have succeeded
C19_Witness ==
    /\ Called("simple_generate")
    /\ nin.answers[1].kind = "Timeout"
    /\ nin.answers[2].kind = "response"
    /\ nin.answers[2].status_code = 200
    /\ nin.answers[2].body = Json(JDict([response |-> JStr("Hi there"), done |-> JStr("true")]))
    /\ ~nout.ok
    /\ nout.exc = "Timeout"

\* the tokens of t before its first and after its last word are whitespace,
\* and s is what lies between
TrimOf(t, s) ==
    \E a \in 0..Len(t) : \E b \in a..Len(t) :
        /\ s = SubSeq(t, a + 1, b)
        /\ \A k \in 1..a : t[k] \in {" ", "\n", "\t"}
        /\ \A k \in (b + 1)..Len(t) : t[k] \in {" ", "\n", "\t"}
        /\ Len(s) > 0 => (s[1] \notin {" ", "\n", "\t"} /\ s[Len(s)] \notin {" ", "\n", "\t"})

\* the places of s where a word begins
WordStarts(s) ==
    {k \in 1..Len(s) : /\ s[k] \notin {" ", "\n", "\t"}
                       /\ (k = 1 \/ s[k - 1] \in {" ", "\n", "\t"})}

\* C20: for every text of the model, transcribe returns as text the model's
\* text without its leading and trailing whitespace, and as word_count the
\* number of whitespace-delimited words of that trimmed text, 0 when the
\* text is empty or only whitespace.
C20_TrimmedTextAndWordCount ==
    (Called("transcribe") /\ nout.ok) =>
        /\ TrimOf(nin.text, nout.val.text)
        /\ nout.val.word_count = Cardinality(WordStarts(nout.val.text))
        /\ (\A k \in 1..Len(nin.text) : nin.text[k] \in {" ", "\n", "\t"})
              => (nout.val.text = <<>> /\ nout.val.word_count = 0)

\* whitespace around and inside, and two tokens that make one word
C20_Witness ==
    /\ Called("transcribe")
    /\ nin.text = <<" ", "hello", "world", "\n">>
    /\ nout.ok
    /\ nout.val.text = <<"hello", "world">>
    /\ nout.val.word_count = 1

\* C21: rag_query retrieves nothing: each call makes exactly one call of the
\* conversation service's chat, whose message carries the query text; the
\* reply is returned as text with sources = [], and a failure of the chat
\* is raised to the caller.
C21_RagQueryForwardsToChat ==
    Called("rag_query") =>
        /\ nout.requests = 1
        /\ Len(nout.messages) = 1
        /\ nout.messages[1] = <<"Query: ">> \o nin.query
        /\ nin.chats[1].kind = "reply" =>
              /\ nout.ok
              /\ nout.val = [text |-> nin.chats[1].text, sources |-> <<>>]
        /\ nin.chats[1].kind # "reply" =>
              /\ ~nout.ok
              /\ nout.exc = nin.chats[1].kind

\* a chat that fails although a second one would have been answered
C21_Witness ==
    /\ Called("rag_query")
    /\ nin.query = <<"capital", " ", "of", " ", "France">>
    /\ nin.knowledge_base = "manuals"
    /\ nin.chats[1].kind = "ConnectionError"
    /\ nin.chats[2].kind = "reply"
    /\ ~nout.ok

-----------------------------------------------------------------------------
(* The thinner operations and the stages of the pipeline                    *)

TranscribeOnly(i) == inv[i].op = "transcribe_audio"

C23_SlowBackendDoesNotStallOthers ==
    \A i \in Requesters : \A j \in Requesters \ {i} :
        (inv[i].pc = "generate" /\ inv[j].pc = "request") => ENABLED loop_start(j)

\* C24: in process_audio_pipeline the generation call is made only after
\* the transcription has returned a text that is not empty once trimmed;
\* the prompt sent is config.system_prompt, then "\n\nUser: ", the trimmed
\* transcription, then "\nAssistant:"; the userText returned is that
\* trimmed transcription and text is the reply of the generation.
C24_PromptFromTrimmedTranscription ==
    \A i \in Workers :
        Pipeline(i) =>
            /\ (inv[i].pc = "generate" \/ inv[i].nGenerate > 0) =>
                  /\ inv[i].nTranscribe = 1
                  /\ inv[i].read # Absent
                  /\ inv[i].failed_at \in {"none", "generate"}
                  /\ inv[i].user_text # <<>>
                  /\ TrimOf(inv[i].transcription, inv[i].user_text)
            /\ inv[i].nGenerate > 0 =>
                  inv[i].request.prompt =
                      (IF "system_prompt" \in DOMAIN inv[i].config
                       THEN inv[i].config.system_prompt
                       ELSE <<"You are a helpful AI assistant.">>)
                      \o <<"\n\nUser: ">> \o inv[i].user_text \o <<"\nAssistant:">>
            /\ (AtExit(i) /\ inv[i].outcome = "returned" /\ inv[i].nGenerate > 0) =>
                  /\ inv[i].result.userText = inv[i].user_text
                  /\ inv[i].result.text = inv[i].response

\* a pipeline that heard " hello world\n" and returned the backend's reply
C24_Witness ==
    /\ Pipeline(1) /\ AtExit(1)
    /\ inv[1].outcome = "returned"
    /\ inv[1].config = PirateConfig
    /\ inv[1].nGenerate = 1
    /\ inv[1].request.prompt = <<"You are a pirate.", "\n\nUser: ", "hello", " ", "world",
                                  "\nAssistant:">>
    /\ inv[1].result = [text |-> <<"Hi", " ", "there">>,
                        userText |-> <<"hello", " ", "world">>, tools |-> <<>>]

\* C25: when the transcription stage of process_audio_pipeline raises (the
\* load of the model or the model itself), no request goes to the generation
\* backend in that invocation, and the invocation ends by raising that
\* exception to its caller, with no result.
C25_FailedTranscriptionSkipsGeneration ==
    \A i \in Workers :
        (Pipeline(i) /\ inv[i].failed_at \in {"load", "transcribe"}) =>
            /\ inv[i].nGenerate = 0
            /\ inv[i].request = NoResult
            /\ inv[i].pc \in {"except", "done"}
            /\ AtExit(i) =>
                  /\ inv[i].outcome = "raised"
                  /\ inv[i].raised \in {"RuntimeError", "ValueError"}
                  /\ inv[i].result = NoResult

\* the model raised after reading the file, and the pipeline raised
C25_Witness ==
    /\ Pipeline(1) /\ AtExit(1)
    /\ inv[1].failed_at = "transcribe"
    /\ inv[1].read # Absent
    /\ inv[1].outcome = "raised"
    /\ inv[1].raised = "RuntimeError"

\* the test of an attribute: a plain object is true, None is false, and the
\* test of an object whose truth test raises counts as false
Available(service) == "raises" \notin DOMAIN service /\ "none" \notin DOMAIN service

\* C26: get_service_status never raises and returns exactly the three
\* boolean fields whisper, ollama and langchain; each field is decided by
\* its own service alone, so a failure while testing one service leaves the
\* other two fields as they would be without it.
C26_StatusFieldsAreIndependent ==
    Called("get_service_status") =>
        /\ nout.ok
        /\ DOMAIN nout.val = {"whisper", "ollama", "langchain"}
        /\ \A k \in DOMAIN nout.val : nout.val[k] \in BOOLEAN
        /\ nout.val.whisper = (/\ Available(nin.self.whisper_service)
                               /\ "device" \in DOMAIN nin.self.whisper_service)
        /\ nout.val.ollama = Available(nin.self.ollama_service)
        /\ nout.val.langchain = Available(nin.self.langchain_service)

\* the test of the first service raises and the other two are still reported
C26_Witness ==
    /\ Called("get_service_status")
    /\ nin.self.whisper_service = [raises |-> TRUE]
    /\ nin.self.ollama_service = AIProcessor_init.ollama_service
    /\ nin.self.langchain_service = [none |-> TRUE]
    /\ nout.val = [whisper |-> FALSE, ollama |-> TRUE, langchain |-> FALSE]

\* C27: the audio endpoint reports a failure as ValidationError (400) only
\* when it was found before the temporary file was allocated; a failure
\* raised by the transcription or the generation stage is never reported as
\* ValidationError, whatever its exception type.
C27_ValidationErrorOnlyBeforeAllocation ==
    \A i \in Workers :
        (Pipeline(i) /\ inv[i].via = "endpoint" /\ AtExit(i)) =>
            /\ inv[i].reported = "ValidationError" =>
                  (inv[i].failed_at = "decode" /\ inv[i].path = NoPath /\ ~inv[i].created)
            /\ inv[i].failed_at \in {"load", "transcribe", "generate"} =>
                  inv[i].reported # "ValidationError"

\* C28: when the load of the model fails inside transcribe, the service
\* stays without a model, the failure reaches the caller, and the next call
\* of transcribe attempts the load again; the model is never asked to
\* transcribe while there is none.
C28_FailedLoadLeavesUnloaded ==
    /\ [](\A i \in Workers : inv[i].pc = "transcribing" => model = "Loaded")
    /\ [](\A i \in Workers :
            inv[i].failed_at = "load" =>
                /\ inv[i].pc \in {"except", "done"}
                /\ inv[i].read = Absent
                /\ AtExit(i) => (inv[i].outcome = "raised" /\ inv[i].raised = "RuntimeError"))
    /\ [][\A i \in Workers :
            (inv[i].failed_at = "none" /\ inv'[i].failed_at = "load") =>
                (model = "None" /\ model' = "None" /\ loads' = loads)]_vars
    /\ [][\A i \in Workers :
            (inv[i].pc = "transcribe" /\ inv'[i].pc # "transcribe" /\ model = "None") =>
                inv'[i].pc = "loading"]_vars

\* the first invocation failed at the load, and a later one has loaded the model
C28_Witness ==
    /\ inv[1].pc = "done"
    /\ inv[1].failed_at = "load"
    /\ inv[1].outcome = "raised"
    /\ inv[2].loaded_here
    /\ model = "Loaded"
    /\ loads = 1

\* the two configs are equal but for model, temperature and max_tokens
SameButGenerationSettings(c, d) ==
    /\ DOMAIN c = DOMAIN d
    /\ \A k \in DOMAIN c \ {"model", "temperature", "max_tokens"} : c[k] = d[k]

C30_CleanupNeverChangesOutcome ==
    \A i \in Workers :
        (AtExit(i) /\ inv[i].remove_failed) =>
            LET r == inv[i] IN
            IF r.exc = "none"
            THEN /\ r.outcome = "returned"
                 /\ r.raised = "none"
                 /\ r.result = IF r.op = "process_audio_pipeline"
                                THEN [text |-> r.response, userText |-> r.user_text,
                                      tools |-> <<>>]
                                ELSE [text |-> r.transcription]
                 /\ r.reported \in {"none", "ok"}
            ELSE /\ r.outcome = "raised"
                 /\ r.raised = r.exc
                 /\ r.failed_at \in {"write", "transcribe", "load", "generate"}
                 /\ r.result = NoResult

\* the generation failed, the removal of the file failed as well, and the
\* caller has the error of the generation while the file is still there
C30_Witness ==
    /\ AtExit(1)
    /\ inv[1].op = "process_audio_pipeline"
    /\ inv[1].remove_failed
    /\ inv[1].failed_at = "generate"
    /\ inv[1].raised = "Timeout"
    /\ fs[inv[1].path] # Absent

=============================================================================
